---------------------------- MODULE Spec2Model ----------------------------
(***************************************************************************)
(* CordasLivre front end (src/src/App.tsx): the product fetch with retry,  *)
(* the filter selection that starts it, the view state derived from the    *)
(* product list, the AI review modal and the resolution of the API base    *)
(* URL.  The file holds two versions of the App component; the model is    *)
(* their union (price bounds from the first, AI review from the second).   *)
(***************************************************************************)
EXTENDS Integers, Sequences, FiniteSets, TLC

VARIABLES
    products,        \* useState<Product[]>([])
    loading,         \* useState(true)
    hasError,        \* useState(false)
    selectedType,    \* useState<StringType>('VIOLAO')
    fetches,         \* the calls of fetchProductsWithRetry, in the order they were started
    topProduct,      \* derived on every render
    lowestPrice,     \* derived on every render
    highestPrice,    \* derived on every render
    aiModalOpen,     \* useState(false)
    aiReviewLoading, \* useState(false)
    aiReviewError,   \* useState<string | null>(null)
    aiReviewData,    \* useState<AiReviewData | null>(null)
    aiReviewProduct, \* useState<Product | null>(null)
    aiRequests,      \* the invocations of handleGenerateAiReview, in order
    viteApiUrl,      \* import.meta.env.VITE_API_URL, a sequence of characters
    hostname,        \* window.location.hostname, or NoWindow
    urlResolved,     \* the module-level const API_BASE_URL has been evaluated
    API_BASE_URL     \* const API_BASE_URL = resolveApiBaseUrl()

fetchVars == <<products, loading, hasError, selectedType, fetches>>
viewVars  == <<topProduct, lowestPrice, highestPrice>>
aiVars    == <<aiModalOpen, aiReviewLoading, aiReviewError, aiReviewData,
               aiReviewProduct, aiRequests>>
urlVars   == <<viteApiUrl, hostname, urlResolved, API_BASE_URL>>
vars      == <<fetchVars, viewVars, aiVars, urlVars>>

---------------------------------------------------------------------------
(* Bounds of the model *)

MaxFetches == 2      \* fetches started in one behaviour (mount included)
MaxFilters == 2      \* filter buttons the user clicks, the first ones of stringTypeOptions
MaxLen == 3          \* longest product list the server delivers in SpecView
MaxRank == 3         \* ranks 1..MaxRank
MaxPrice == 2        \* prices 0..MaxPrice
MaxAiRequests == 2   \* invocations of handleGenerateAiReview in one behaviour

---------------------------------------------------------------------------
(* Data *)

stringTypeOptions ==
    <<"VIOLAO", "GUITARRA", "CONTRABAIXO", "CAVAQUINHO", "VIOLA_CAIPIRA", "VIOLINO">>

StringType == {stringTypeOptions[i] : i \in 1..Len(stringTypeOptions)}

FilterChoices ==
    {stringTypeOptions[i] : i \in 1..(IF MaxFilters < Len(stringTypeOptions)
                                      THEN MaxFilters ELSE Len(stringTypeOptions))}

Product(id, type, rank, price) ==
    [id |-> id, type |-> type, rank |-> rank, price |-> price]

\* JavaScript's undefined / null for a value that is otherwise a record
Undefined == [undefined |-> TRUE]
Null == [null |-> TRUE]

Ranks == 1..MaxRank
Prices == 0..MaxPrice

\* the list of n products of one type with ranks r[1..n] and prices p[1..n]
ProductList(type, n, r, p) == [i \in 1..n |-> Product(i, type, r[i], p[i])]

\* what GET /strings?type=t may deliver in Spec: nothing, or a list of that type
\* (ranks out of order on purpose: the client must not depend on the order)
Responses(type) ==
    { <<>>,
      <<Product(1, type, 3, 0), Product(2, type, 1, 2), Product(3, type, 2, 1)>> }

ErrorKinds == {"network", "timeout", "http"}

---------------------------------------------------------------------------
(* Derived view state *)

HasRankOne(product) == product.rank = 1

\* products.find(test): the first element that satisfies the test, or undefined
Find(list) ==
    LET hits == {i \in 1..Len(list) : HasRankOne(list[i])}
    IN  IF hits = {} THEN Undefined
        ELSE list[CHOOSE i \in hits : \A j \in hits : i <= j]

\* list[0] of a JavaScript array: undefined when the array is empty
First(list) == IF Len(list) = 0 THEN Undefined ELSE list[1]

\* a || b on values that are objects or undefined
OrElse(a, b) == IF a = Undefined THEN b ELSE a

\* variant: the rank is not looked at
TopProductFirstOnly(list) == First(list)

TopProductOf(list) == OrElse(Find(list), First(list))

RECURSIVE MathMin(_)
MathMin(list) ==
    IF Len(list) = 1 THEN list[1]
    ELSE LET rest == MathMin(Tail(list))
         IN  IF list[1] < rest THEN list[1] ELSE rest

RECURSIVE MathMax(_)
MathMax(list) ==
    IF Len(list) = 1 THEN list[1]
    ELSE LET rest == MathMax(Tail(list))
         IN  IF list[1] > rest THEN list[1] ELSE rest

PricesOf(list) == [i \in 1..Len(list) |-> list[i].price]

\* variant: the first price stands for the least
LowestPriceOfFirst(list) == IF Len(list) > 0 THEN list[1].price ELSE 0

LowestPriceOf(list) == IF Len(list) > 0 THEN MathMin(PricesOf(list)) ELSE 0

HighestPriceOf(list) == IF Len(list) > 0 THEN MathMax(PricesOf(list)) ELSE 0

\* the component body runs again after every state change
Render ==
    /\ topProduct' = TopProductOf(products')
    /\ lowestPrice' = LowestPriceOf(products')
    /\ highestPrice' = HighestPriceOf(products')

---------------------------------------------------------------------------
(* fetchProductsWithRetry *)

RETRIES == 5
DELAY_MS == 2000

NoError == [kind |-> "none", attempt |-> 0]
NoResponse == [data |-> <<>>, attempt |-> 0]

\* a call of fetchProductsWithRetry(type) at its first axios.get
NewFetch(type) ==
    [type |-> type, retries |-> RETRIES, delayMs |-> DELAY_MS,
     attempt |-> 1, pc |-> "get", calls |-> 1, failed |-> 0, waits |-> 0, waited |-> 0,
     waitMs |-> 0, lastError |-> NoError, response |-> NoResponse,
     result |-> <<>>, thrown |-> NoError]

\* variant: a wait follows the last failed attempt too
WaitsAfterFailureAlways(attempt, retries) == attempt <= retries

\* if (attempt < retries) await wait(delayMs)
WaitsAfterFailure(attempt, retries) == attempt < retries

\* variant: the loop gives up one attempt early
LoopContinuesOneShort(attempt, retries) == attempt < retries

\* for (...; attempt <= retries; attempt++)
LoopContinues(attempt, retries) == attempt <= retries

\* variant: the first error is kept
CaughtErrorKeepFirst(lastError, error) == IF lastError = NoError THEN error ELSE lastError

\* lastError = error
CaughtError(lastError, error) == error

\* return response.data
Returned(response) == response.data

\* the call after its GET succeeded: the routine returns (its local lastError ends
\* with the call)
FetchReturned(f, data) ==
    LET response == [data |-> data, attempt |-> f.attempt]
    IN  [f EXCEPT !.pc = "returned", !.response = response,
                  !.result = Returned(response), !.lastError = NoError]

\* variant: the wait between attempts is left out
FetchFailedNoWait(f0, error) ==
    LET last == CaughtError(f0.lastError, error)
        f == [f0 EXCEPT !.failed = f0.failed + 1]
    IN  IF LoopContinues(f.attempt + 1, f.retries)
        THEN [f EXCEPT !.lastError = last, !.attempt = f.attempt + 1,
                       !.calls = f.calls + 1]
        ELSE [f EXCEPT !.lastError = last, !.attempt = f.attempt + 1,
                       !.pc = "thrown", !.thrown = last]

\* variant: a non-2xx response is not retried
FetchFailedHttpFatal(f0, error) ==
    LET last == CaughtError(f0.lastError, error)
        f == [f0 EXCEPT !.failed = f0.failed + 1]
    IN  IF error.kind /= "http" /\ WaitsAfterFailure(f.attempt, f.retries)
        THEN [f EXCEPT !.lastError = last, !.pc = "wait", !.waits = f.waits + 1,
                       !.waitMs = f.delayMs]
        ELSE [f EXCEPT !.lastError = last, !.attempt = f.attempt + 1,
                       !.pc = "thrown", !.thrown = last]

\* the call after its GET failed with error: wait, go on to the next attempt, or throw
FetchFailed(f0, error) ==
    LET last == CaughtError(f0.lastError, error)
        f == [f0 EXCEPT !.failed = f0.failed + 1]
    IN  IF WaitsAfterFailure(f.attempt, f.retries)
        THEN [f EXCEPT !.lastError = last, !.pc = "wait", !.waits = f.waits + 1,
                       !.waitMs = f.delayMs]
        ELSE IF LoopContinues(f.attempt + 1, f.retries)
        THEN [f EXCEPT !.lastError = last, !.attempt = f.attempt + 1,
                       !.calls = f.calls + 1]
        ELSE [f EXCEPT !.lastError = last, !.attempt = f.attempt + 1,
                       !.pc = "thrown", !.thrown = last]

\* the call after its wait elapsed: attempt++, and the next GET or the throw
FetchWaited(f) ==
    IF LoopContinues(f.attempt + 1, f.retries)
    THEN [f EXCEPT !.attempt = f.attempt + 1, !.waited = f.waited + 1,
                   !.pc = "get", !.calls = f.calls + 1]
    ELSE [f EXCEPT !.attempt = f.attempt + 1, !.waited = f.waited + 1,
                   !.pc = "thrown", !.thrown = f.lastError]

---------------------------------------------------------------------------
(* The effect on selectedType and its promise callbacks *)

\* variant: a response for a filter no longer selected is dropped
ThenProductsIfCurrent(f, data) == IF f.type = selectedType THEN data ELSE products

\* variant: the response is added to the list already shown
ThenProductsMerged(f, data) == products \o data

\* .then((data) => { setProducts(data); setHasError(false); })
ThenProducts(f, data) == data

\* variant: a success leaves the error flag as it is
ThenHasErrorKept(flag) == flag

\* setHasError(false) in .then
ThenHasError(flag) == FALSE

\* variant: the list is emptied when the fetch fails
CatchProductsCleared(list) == <<>>

\* .catch sets hasError only: products keeps its value
CatchProducts(list) == list

\* the settled promise's callbacks: then or catch, and finally
Settle(f) ==
    IF f.pc = "returned"
    THEN /\ products' = ThenProducts(f, f.result)
         /\ hasError' = ThenHasError(hasError)
         /\ loading' = FALSE
    ELSE IF f.pc = "thrown"
    THEN /\ products' = CatchProducts(products)
         /\ hasError' = TRUE
         /\ loading' = FALSE
    ELSE UNCHANGED <<products, hasError, loading>>

\* useEffect(() => { setLoading(true); fetchProductsWithRetry(selectedType)... }, [selectedType])
RunEffect(type) ==
    /\ loading' = TRUE
    /\ fetches' = Append(fetches, NewFetch(type))

\* the effect of the first render
MountEffect ==
    /\ Len(fetches) = 0
    /\ RunEffect(selectedType)
    /\ UNCHANGED <<products, hasError, selectedType>>
    /\ Render
    /\ UNCHANGED <<aiVars, urlVars>>

\* variant: the effect runs after every click, whether selectedType changed or not
SelectFilterAlways(type) ==
    /\ Len(fetches) > 0
    /\ Len(fetches) < MaxFetches
    /\ selectedType' = type
    /\ RunEffect(type)
    /\ UNCHANGED <<products, hasError>>
    /\ Render
    /\ UNCHANGED <<aiVars, urlVars>>

\* onClick={() => setSelectedType(option.value)} and the effect of the render it causes;
\* setting the state to the value it has causes no render and no effect
SelectFilter(type) ==
    /\ Len(fetches) > 0
    /\ IF type = selectedType
       THEN UNCHANGED <<fetchVars, viewVars>>
       ELSE /\ Len(fetches) < MaxFetches
            /\ selectedType' = type
            /\ RunEffect(type)
            /\ UNCHANGED <<products, hasError>>
            /\ Render
    /\ UNCHANGED <<aiVars, urlVars>>

\* the pending axios.get of call i resolves with data
GetSucceeds(i, data) ==
    /\ i \in 1..Len(fetches)
    /\ fetches[i].pc = "get"
    /\ LET f == FetchReturned(fetches[i], data)
       IN  /\ fetches' = [fetches EXCEPT ![i] = f]
           /\ Settle(f)
    /\ UNCHANGED selectedType
    /\ Render
    /\ UNCHANGED <<aiVars, urlVars>>

\* the pending axios.get of call i rejects (network error, timeout, non-2xx)
GetFails(i, kind) ==
    /\ i \in 1..Len(fetches)
    /\ fetches[i].pc = "get"
    /\ LET f == FetchFailed(fetches[i], [kind |-> kind, attempt |-> fetches[i].attempt])
       IN  /\ fetches' = [fetches EXCEPT ![i] = f]
           /\ Settle(f)
    /\ UNCHANGED selectedType
    /\ Render
    /\ UNCHANGED <<aiVars, urlVars>>

\* the timer of call i's wait(delayMs) fires
WaitElapsed(i) ==
    /\ i \in 1..Len(fetches)
    /\ fetches[i].pc = "wait"
    /\ LET f == FetchWaited(fetches[i])
       IN  /\ fetches' = [fetches EXCEPT ![i] = f]
           /\ Settle(f)
    /\ UNCHANGED selectedType
    /\ Render
    /\ UNCHANGED <<aiVars, urlVars>>

---------------------------------------------------------------------------
(* The AI review modal *)

\* the fixed text of setAiReviewError(...), a value that is otherwise null
AI_ERROR_MESSAGE ==
    [message |-> "Nao foi possivel gerar a avaliacao IA agora. Tente novamente em instantes."]

\* response.data.review of the POST of invocation i for product
Review(product, i) ==
    [productId |-> product.id, productType |-> product.type, generatedAt |-> i]

\* an invocation of handleGenerateAiReview(product) at its axios.post
NewAiRequest(product) ==
    [product |-> product, pc |-> "post", posts |-> 1, settledAt |-> 0]

\* variant: the stored review survives the opening
DataOnOpenKept(data) == data

\* setAiReviewData(null) at the start of the handler
DataOnOpen(data) == Null

\* variant: a failed POST is issued once more
PostRejectedRetry(request) ==
    IF request.posts < 2
    THEN [request EXCEPT !.posts = request.posts + 1]
    ELSE [request EXCEPT !.pc = "rejected", !.settledAt = Len(aiRequests)]

\* the invocation after its POST failed: the catch block, no further POST
PostRejected(request) ==
    [request EXCEPT !.pc = "rejected", !.settledAt = Len(aiRequests)]

\* the "Gerar avaliacao IA" button of a product card: the cards are rendered when
\* the list is not loading and not empty; the handler up to its await
handleGenerateAiReview(product) ==
    /\ ~loading
    /\ \E i \in DOMAIN products : products[i] = product
    /\ Len(aiRequests) < MaxAiRequests
    /\ aiModalOpen' = TRUE
    /\ aiReviewLoading' = TRUE
    /\ aiReviewError' = Null
    /\ aiReviewData' = DataOnOpen(aiReviewData)
    /\ aiReviewProduct' = product
    /\ aiRequests' = Append(aiRequests, NewAiRequest(product))
    /\ UNCHANGED <<fetchVars, viewVars, urlVars>>

\* the POST of invocation i resolves: the rest of the try block, and finally
PostSucceeds(i) ==
    /\ i \in DOMAIN aiRequests
    /\ aiRequests[i].pc = "post"
    /\ aiReviewData' = Review(aiRequests[i].product, i)
    /\ aiReviewLoading' = FALSE
    /\ aiRequests' = [aiRequests EXCEPT ![i].pc = "fulfilled",
                                        ![i].settledAt = Len(aiRequests)]
    /\ UNCHANGED <<aiModalOpen, aiReviewError, aiReviewProduct>>
    /\ UNCHANGED <<fetchVars, viewVars, urlVars>>

\* the POST of invocation i rejects: the catch block, and finally
PostFails(i) ==
    /\ i \in DOMAIN aiRequests
    /\ aiRequests[i].pc = "post"
    /\ aiReviewError' = AI_ERROR_MESSAGE
    /\ aiReviewLoading' = FALSE
    /\ aiRequests' = [aiRequests EXCEPT ![i] = PostRejected(aiRequests[i])]
    /\ UNCHANGED <<aiModalOpen, aiReviewData, aiReviewProduct>>
    /\ UNCHANGED <<fetchVars, viewVars, urlVars>>

\* the modal's "Fechar" button
CloseModal ==
    /\ aiModalOpen
    /\ aiModalOpen' = FALSE
    /\ UNCHANGED <<aiReviewLoading, aiReviewError, aiReviewData, aiReviewProduct,
                   aiRequests>>
    /\ UNCHANGED <<fetchVars, viewVars, urlVars>>

\* what the modal shows: nothing when closed, else the loading notice, else the
\* error, else the review, else an empty body
ModalBody ==
    IF ~aiModalOpen THEN [shows |-> "nothing"]
    ELSE IF aiReviewLoading THEN [shows |-> "loading"]
    ELSE IF aiReviewError /= Null THEN [shows |-> "error", text |-> aiReviewError]
    ELSE IF aiReviewData /= Null THEN [shows |-> "review", review |-> aiReviewData]
    ELSE [shows |-> "empty"]

---------------------------------------------------------------------------
(* resolveApiBaseUrl: strings are sequences of characters *)

DEFAULT_API_URL == <<"h", "t", "t", "p", "s", ":", "/", "/", "c", "o", "r", "d", "a", "s", "l", "i", "v", "r", "e", "-", "b", "a", "c", "k", "-", "e", "n", "d", ".", "o", "n", "r", "e", "n", "d", "e", "r", ".", "c", "o", "m">>

\* typeof window === 'undefined'
NoWindow == <<"undefined">>

LowerCase == <<"a", "b", "c", "d", "e", "f", "g", "h", "i", "j", "k", "l", "m", "n", "o", "p", "q", "r", "s", "t", "u", "v", "w", "x", "y", "z">>
UpperCase == <<"A", "B", "C", "D", "E", "F", "G", "H", "I", "J", "K", "L", "M", "N", "O", "P", "Q", "R", "S", "T", "U", "V", "W", "X", "Y", "Z">>

\* the character a case-insensitive match compares
ToLower(c) ==
    IF \E i \in DOMAIN UpperCase : UpperCase[i] = c
    THEN LowerCase[CHOOSE i \in DOMAIN UpperCase : UpperCase[i] = c]
    ELSE c

IsSpace(c) == c \in {" ", "\t", "\n"}

RECURSIVE TrimStart(_)
TrimStart(str) ==
    IF Len(str) > 0 /\ IsSpace(Head(str)) THEN TrimStart(Tail(str)) ELSE str

RECURSIVE TrimEnd(_)
TrimEnd(str) ==
    IF Len(str) > 0 /\ IsSpace(str[Len(str)])
    THEN TrimEnd(SubSeq(str, 1, Len(str) - 1)) ELSE str

\* String.prototype.trim
Trim(str) == TrimEnd(TrimStart(str))

\* envUrl.replace(/\/$/, ''): one slash at the very end is removed
StripTrailingSlash(str) ==
    IF Len(str) > 0 /\ str[Len(str)] = "/" THEN SubSeq(str, 1, Len(str) - 1) ELSE str

LOCALHOST == <<"l", "o", "c", "a", "l", "h", "o", "s", "t">>
LOOPBACK_IP == <<"1", "2", "7", ".", "0", ".", "0", ".", "1">>

\* the literal pattern (in lower case) matches str at position i, ignoring case
MatchesAt(str, pattern, i) ==
    /\ i + Len(pattern) - 1 <= Len(str)
    /\ \A j \in DOMAIN pattern : ToLower(str[i + j - 1]) = pattern[j]

\* /pattern/i.test(str): the pattern occurs somewhere in str
TestAnywhere(str, pattern) == \E i \in DOMAIN str : MatchesAt(str, pattern, i)

\* /^pattern$/i.test(str): str is the pattern
TestWhole(str, pattern) == Len(str) = Len(pattern) /\ MatchesAt(str, pattern, 1)

\* /^(localhost|127\.0\.0\.1)$/i.test(window.location.hostname)
IsLocalHost(host) == TestWhole(host, LOCALHOST) \/ TestWhole(host, LOOPBACK_IP)

\* /localhost|127\.0\.0\.1/i.test(normalized)
EnvPointsToLocal(normalized) ==
    TestAnywhere(normalized, LOCALHOST) \/ TestAnywhere(normalized, LOOPBACK_IP)

resolveApiBaseUrl(env, host) ==
    LET envUrl == Trim(env)
        normalized == StripTrailingSlash(envUrl)
    IN  IF Len(envUrl) = 0 THEN DEFAULT_API_URL
        ELSE IF host /= NoWindow /\ ~IsLocalHost(host) /\ EnvPointsToLocal(normalized)
        THEN DEFAULT_API_URL
        ELSE normalized

\* the module is evaluated: const API_BASE_URL = resolveApiBaseUrl()
LoadModule ==
    /\ ~urlResolved
    /\ urlResolved' = TRUE
    /\ API_BASE_URL' = resolveApiBaseUrl(viteApiUrl, hostname)
    /\ UNCHANGED <<viteApiUrl, hostname>>
    /\ UNCHANGED <<fetchVars, viewVars, aiVars>>

\* overrides and page hosts the resolution is checked on
UrlBases ==
    { <<"h", "t", "t", "p", ":", "/", "/", "l", "o", "c", "a", "l", "h", "o", "s", "t", ":", "9", "9", "9", "9">>,
      <<"h", "t", "t", "p", ":", "/", "/", "1", "2", "7", ".", "0", ".", "0", ".", "1", ":", "9", "9", "9", "9">>,
      <<"h", "t", "t", "p", ":", "/", "/", "L", "o", "c", "a", "l", "H", "o", "s", "t", ":", "9", "9", "9", "9">>,
      <<"h", "t", "t", "p", "s", ":", "/", "/", "a", "p", "i", ".", "i", "o">>,
      <<"h", "t", "t", "p", "s", ":", "/", "/", "m", "y", "l", "o", "c", "a", "l", "h", "o", "s", "t", ".", "i", "o">>,
      <<"h", "t", "t", "p", "s", ":", "/", "/", "a", "p", "i", ".", "i", "o", "/", "l", "o", "c", "a", "l", "h", "o", "s", "t">>,
      <<"h", "t", "t", "p", "s", ":", "/", "/", "1", "2", "7", "a", "0", "b", "0", "c", "1", ".", "i", "o">> }

UrlLeads == { <<>>, <<" ">> }
UrlTrails == { <<>>, <<"/">>, <<"/", " ">> }

EnvUrls ==
    { <<>>, <<" ">> } \cup { lead \o base \o trail :
                               lead \in UrlLeads, base \in UrlBases, trail \in UrlTrails }

Hostnames ==
    { LOCALHOST,
      LOOPBACK_IP,
      <<"L", "O", "C", "A", "L", "H", "O", "S", "T">>,
      <<"s", "h", "o", "p", ".", "i", "o">>,
      <<"m", "y", "l", "o", "c", "a", "l", "h", "o", "s", "t", ".", "i", "o">>,
      NoWindow }

---------------------------------------------------------------------------
(* Specifications *)

\* the calls suspended at an axios.get ("get") or at a wait(delayMs) ("wait")
Pending(pc) == {i \in DOMAIN fetches : fetches[i].pc = pc}

InitFetch ==
    /\ products = <<>>
    /\ loading = TRUE
    /\ hasError = FALSE
    /\ selectedType = "VIOLAO"
    /\ fetches = <<>>

InitView ==
    /\ topProduct = TopProductOf(<<>>)
    /\ lowestPrice = LowestPriceOf(<<>>)
    /\ highestPrice = HighestPriceOf(<<>>)

InitAi ==
    /\ aiModalOpen = FALSE
    /\ aiReviewLoading = FALSE
    /\ aiReviewError = Null
    /\ aiReviewData = Null
    /\ aiReviewProduct = Null
    /\ aiRequests = <<>>

\* the page as deployed: no override, evaluated on a page host that is not loopback
InitUrl ==
    /\ viteApiUrl = <<>>
    /\ hostname = <<"s", "h", "o", "p", ".", "i", "o">>
    /\ urlResolved = TRUE
    /\ API_BASE_URL = resolveApiBaseUrl(viteApiUrl, hostname)

Init == InitFetch /\ InitView /\ InitAi /\ InitUrl

Next ==
    \/ MountEffect
    \/ \E type \in FilterChoices : SelectFilter(type)
    \/ \E i \in Pending("get") : \E data \in Responses(fetches[i].type) : GetSucceeds(i, data)
    \/ \E i \in Pending("get") : \E kind \in ErrorKinds : GetFails(i, kind)
    \/ \E i \in Pending("wait") : WaitElapsed(i)

Spec == Init /\ [][Next]_vars

NextView ==
    \/ MountEffect
    \/ \E i \in Pending("get") : \E n \in 0..MaxLen :
          \E r \in [1..n -> Ranks], p \in [1..n -> Prices] :
              GetSucceeds(i, ProductList(fetches[i].type, n, r, p))
    \/ \E i \in Pending("get") : \E kind \in ErrorKinds : GetFails(i, kind)
    \/ \E i \in Pending("wait") : WaitElapsed(i)

NextAi ==
    \/ MountEffect
    \/ \E i \in Pending("get") : \E data \in Responses(fetches[i].type) : GetSucceeds(i, data)
    \/ \E i \in Pending("get") : \E kind \in ErrorKinds : GetFails(i, kind)
    \/ \E i \in Pending("wait") : WaitElapsed(i)
    \/ \E i \in DOMAIN products : handleGenerateAiReview(products[i])
    \/ \E i \in DOMAIN aiRequests : PostSucceeds(i)
    \/ \E i \in DOMAIN aiRequests : PostFails(i)
    \/ CloseModal

\* the mounted component and its AI review modal, the filter left as it is
SpecAi == Init /\ [][NextAi]_vars

InitLoad ==
    /\ InitFetch /\ InitView /\ InitAi
    /\ viteApiUrl \in EnvUrls
    /\ hostname \in Hostnames
    /\ urlResolved = FALSE
    /\ API_BASE_URL = <<>>

\* the evaluation of the module under every override and page host
SpecUrl == InitLoad /\ [][LoadModule]_vars

\* the mounted component with a server that may deliver any product list
SpecView == Init /\ [][NextView]_vars

---------------------------------------------------------------------------
(* Properties of fetchProductsWithRetry *)

\* C1: when the first k attempts (k in 0..4) of a call fail and attempt k+1 succeeds,
\* the call returns the payload of that attempt, has made exactly k+1 GETs and has
\* waited exactly k times; every GET after the first starts only after the wait that
\* followed the previous failure has elapsed.
C1_RetryThenSuccess ==
    \A i \in DOMAIN fetches :
        LET f == fetches[i]
            k == f.failed
        IN  /\ f.pc = "returned" =>
                /\ k \in 0..4
                /\ f.response.attempt = k + 1
                /\ f.result = f.response.data
                /\ f.calls = k + 1
                /\ f.waits = k
                /\ f.waited = k
            /\ f.pc = "get" =>
                /\ f.calls = f.failed + 1
                /\ f.waits = f.failed
                /\ f.waited = f.failed

C1_Witness ==
    \E i \in DOMAIN fetches :
        /\ fetches[i].pc = "returned"
        /\ fetches[i].failed = 4
        /\ fetches[i].calls = 5
        /\ fetches[i].waited = 4
        /\ Len(fetches[i].result) > 0
        /\ products = fetches[i].result

\* C2: when 5 consecutive attempts of a call fail, the call throws the error of the
\* fifth attempt and has made exactly 5 GETs; no call ever makes a sixth.
C2_ExhaustedThrowsLast ==
    \A i \in DOMAIN fetches :
        LET f == fetches[i]
        IN  /\ f.calls <= 5
            /\ f.pc = "thrown" <=> f.failed = 5
            /\ f.pc = "thrown" =>
                /\ f.calls = 5
                /\ f.thrown.attempt = 5
                /\ f.thrown.kind \in ErrorKinds

C2_Witness ==
    \E i \in DOMAIN fetches :
        /\ fetches[i].pc = "thrown"
        /\ fetches[i].failed = 5
        /\ fetches[i].thrown = [kind |-> "timeout", attempt |-> 5]
        /\ hasError

---------------------------------------------------------------------------
(* Overlapping fetches *)

AllSettled == \A i \in DOMAIN fetches : fetches[i].pc \in {"returned", "thrown"}

\* C3: once all fetches have completed, after a filter was selected while an earlier
\* fetch was pending, the displayed list is the response of the most recently started
\* fetch (the one for the selected filter).
C3_LastStartedWins ==
    (/\ Len(fetches) >= 2
     /\ AllSettled
     /\ fetches[Len(fetches)].pc = "returned")
    => products = fetches[Len(fetches)].result

\* C4: selecting another filter leaves every fetch in flight as it is, a fetch in
\* flight for a filter that is no longer selected can still go on (its GET can settle,
\* its wait can elapse), and a fetch that succeeds writes its response to products
\* whatever filter is selected then.
C4_StaleFetchNotCancelled ==
    /\ [][\A i \in DOMAIN fetches :
            /\ i \in DOMAIN fetches'
            /\ selectedType' /= selectedType => fetches'[i] = fetches[i]
            /\ (fetches[i].pc = "get" /\ fetches'[i].pc = "returned")
                  => products' = fetches'[i].result]_vars
    /\ [](\A i \in DOMAIN fetches :
            /\ (fetches[i].type /= selectedType /\ fetches[i].pc = "wait")
                  => ENABLED WaitElapsed(i)
            /\ (fetches[i].type /= selectedType /\ fetches[i].pc = "get")
                  => /\ ENABLED GetFails(i, "network")
                     /\ ENABLED GetSucceeds(i, <<>>))

C4_Witness ==
    \E i \in DOMAIN fetches :
        /\ fetches[i].pc = "returned"
        /\ fetches[i].type /= selectedType
        /\ fetches[i].failed > 0
        /\ Len(products) > 0
        /\ products = fetches[i].result
        /\ products[1].type /= selectedType
        /\ fetches[Len(fetches)].pc = "returned"

---------------------------------------------------------------------------
(* Properties of the derived view state *)

RankOnePositions == {i \in DOMAIN products : products[i].rank = 1}

\* C5: topProduct is a product of the list whose rank is 1 when there is one, wherever
\* it stands; the first element when no product has rank 1; undefined when the list is
\* empty.
C5_TopProduct ==
    /\ Len(products) = 0 => topProduct = Undefined
    /\ RankOnePositions /= {} =>
          \E i \in RankOnePositions : topProduct = products[i]
    /\ (Len(products) > 0 /\ RankOnePositions = {}) => topProduct = products[1]

C5_Witness ==
    /\ Len(products) = 3
    /\ RankOnePositions = {3}
    /\ topProduct = products[3]
    /\ topProduct /= products[1]

\* C6: lowestPrice and highestPrice are 0 for the empty list, else the least and the
\* greatest price in the list; lowestPrice <= highestPrice in every state.
C6_PriceBounds ==
    /\ Len(products) = 0 => (lowestPrice = 0 /\ highestPrice = 0)
    /\ Len(products) > 0 =>
          /\ \E i \in DOMAIN products : products[i].price = lowestPrice
          /\ \E i \in DOMAIN products : products[i].price = highestPrice
          /\ \A i \in DOMAIN products :
                lowestPrice <= products[i].price /\ products[i].price <= highestPrice
    /\ lowestPrice <= highestPrice

C6_Witness ==
    /\ Len(products) = 3
    /\ products[1].price = 1
    /\ products[2].price = 2
    /\ products[3].price = 0
    /\ lowestPrice = 0
    /\ highestPrice = 2

---------------------------------------------------------------------------
(* Properties of resolveApiBaseUrl *)

\* the host of a URL: what stands between "//" and the next ":" or "/"
RECURSIVE UpTo(_, _)
UpTo(str, stops) ==
    IF Len(str) = 0 \/ Head(str) \in stops THEN <<>>
    ELSE <<Head(str)>> \o UpTo(Tail(str), stops)

RECURSIVE AfterSlashes(_)
AfterSlashes(str) ==
    IF Len(str) < 2 THEN <<>>
    ELSE IF str[1] = "/" /\ str[2] = "/" THEN SubSeq(str, 3, Len(str))
    ELSE AfterSlashes(Tail(str))

UrlHost(url) == UpTo(AfterSlashes(url), {":", "/"})

IsLoopbackName(host) ==
    LET lower == [i \in DOMAIN host |-> ToLower(host[i])]
    IN  lower = LOCALHOST \/ lower = LOOPBACK_IP

\* the override as written, without the surrounding blanks and the closing slash
Override == StripTrailingSlash(Trim(viteApiUrl))

\* C7: an override whose host is localhost or 127.0.0.1 yields the default URL on a
\* page whose hostname is not loopback and is kept on a page whose hostname is
\* loopback; an override whose host is not loopback is used on every page host.
\* ("Kept" and "used" are read up to the blanks around the override and its closing
\* slash, which the code always removes.)
C7_LoopbackOverride ==
    (urlResolved /\ Len(Trim(viteApiUrl)) > 0 /\ hostname /= NoWindow) =>
        IF IsLoopbackName(UrlHost(Override))
        THEN IF IsLoopbackName(hostname)
             THEN API_BASE_URL = Override
             ELSE API_BASE_URL = DEFAULT_API_URL
        ELSE API_BASE_URL = Override

---------------------------------------------------------------------------
(* Properties of the AI review modal *)

C9_SuccessShowsItsReview ==
    [][\A i \in DOMAIN aiRequests :
          (aiRequests[i].pc = "post" /\ aiRequests'[i].pc = "fulfilled" /\ aiModalOpen')
            => ModalBody' = [shows |-> "review",
                             review |-> Review(aiRequests[i].product, i)]]_vars

\* the stored review was produced after the latest opening of the modal
StoredReviewIsFresh ==
    aiReviewData /= Null =>
        aiRequests[aiReviewData.generatedAt].settledAt = Len(aiRequests)

\* C10 as claimed: after the modal is closed no review is retained, and no opening
\* shows a review produced before it.
C10_DiscardedOnClose ==
    /\ ~aiModalOpen => aiReviewData = Null
    /\ StoredReviewIsFresh

\* C10 as amended: a closed modal shows nothing (the review stays in aiReviewData),
\* every opening clears the stored review, and the stored review was always produced
\* after the latest opening.
C10_DiscardedOnOpen ==
    /\ ~aiModalOpen => ModalBody.shows = "nothing"
    /\ (aiReviewLoading /\ Len(aiRequests) > 0
          /\ \A i \in DOMAIN aiRequests : aiRequests[i].settledAt < Len(aiRequests))
         => aiReviewData = Null
    /\ StoredReviewIsFresh

C10_Witness ==
    /\ Len(aiRequests) = 2
    /\ aiRequests[1].pc = "fulfilled"
    /\ aiRequests[1].settledAt = 1
    /\ aiRequests[2].pc = "post"
    /\ aiModalOpen
    /\ aiReviewData = Null

C10_RetainedWhileClosed ==
    /\ ~aiModalOpen
    /\ aiReviewData /= Null

---------------------------------------------------------------------------
(* Properties of the effect's callbacks *)

\* call i settles in this step: its promise is fulfilled or rejected
Completes(i) ==
    /\ i \in DOMAIN fetches
    /\ fetches[i].pc \in {"get", "wait"}
    /\ fetches'[i].pc \in {"returned", "thrown"}

\* C11: when a fetch succeeds, products becomes the list the server delivered: as long
\* as it, element by element in the delivered order, with nothing of the earlier list.
C11_ReplacedWholesale ==
    [][\A i \in DOMAIN fetches :
          (Completes(i) /\ fetches'[i].pc = "returned") =>
              LET delivered == fetches'[i].response.data
              IN  /\ Len(products') = Len(delivered)
                  /\ \A j \in 1..Len(delivered) : products'[j] = delivered[j]]_vars

C11_Witness ==
    /\ Len(fetches) = 2
    /\ fetches[1].pc = "returned"
    /\ fetches[2].pc = "returned"
    /\ Len(fetches[1].response.data) = 3
    /\ Len(fetches[2].response.data) = 3
    /\ products = fetches[2].response.data
    /\ products /= fetches[1].response.data
    /\ products[1].rank = 3
    /\ products[2].rank = 1

\* C12: hasError turns true only in the step in which a call throws after RETRIES
\* failed attempts, an earlier failed attempt leaves it alone; with the banner shown
\* every other filter can still be selected and starts a call of its own, and a call
\* that returns puts hasError back to FALSE.
C12_ErrorOnlyWhenExhausted ==
    /\ [][(hasError' /\ ~hasError) =>
             \E i \in DOMAIN fetches :
                 /\ Completes(i)
                 /\ fetches'[i].pc = "thrown"
                 /\ fetches'[i].failed = RETRIES]_vars
    /\ [][\A i \in DOMAIN fetches :
             (fetches'[i].failed > fetches[i].failed /\ fetches'[i].failed < RETRIES) =>
                 /\ hasError' = hasError
                 /\ fetches'[i].pc \notin {"returned", "thrown"}]_vars
    /\ [](hasError /\ Len(fetches) < MaxFetches =>
             \A type \in FilterChoices \ {selectedType} : ENABLED SelectFilter(type))
    /\ [][(hasError /\ selectedType' /= selectedType) =>
             /\ Len(fetches') = Len(fetches) + 1
             /\ fetches'[Len(fetches')] = NewFetch(selectedType')
             /\ loading']_vars
    /\ [][\A i \in DOMAIN fetches :
             (Completes(i) /\ fetches'[i].pc = "returned") => ~hasError']_vars

C12_Witness ==
    /\ Len(fetches) = 2
    /\ fetches[1].pc = "thrown"
    /\ fetches[1].failed = RETRIES
    /\ fetches[2].pc = "returned"
    /\ fetches[2].failed > 0
    /\ ~hasError

\* C13: what follows a failed GET depends on the attempt number alone: below RETRIES
\* the call waits and then makes the next attempt, at RETRIES it throws, whatever the
\* kind of the error; every wait lasts DELAY_MS, whatever the attempt and the error.
C13_RetryIgnoresErrorKind ==
    /\ [][\A i \in DOMAIN fetches :
             fetches'[i].failed > fetches[i].failed =>
                 /\ fetches'[i].lastError.kind \in ErrorKinds
                 /\ fetches'[i].lastError.attempt = fetches[i].attempt
                 /\ IF fetches[i].attempt < RETRIES
                    THEN /\ fetches'[i].pc = "wait"
                         /\ fetches'[i].attempt = fetches[i].attempt
                         /\ fetches'[i].waitMs = DELAY_MS
                    ELSE fetches'[i].pc = "thrown"]_vars
    /\ [][\A i \in DOMAIN fetches :
             fetches[i].pc = "wait" =>
                 \/ fetches'[i] = fetches[i]
                 \/ /\ fetches'[i].pc = "get"
                    /\ fetches'[i].attempt = fetches[i].attempt + 1
                    /\ fetches'[i].calls = fetches[i].calls + 1]_vars
    /\ [](\A i \in DOMAIN fetches :
             fetches[i].pc = "wait" => fetches[i].waitMs = DELAY_MS)

C13_Witness ==
    /\ Len(fetches) = 2
    /\ fetches[1].pc = "wait"
    /\ fetches[1].lastError = [kind |-> "http", attempt |-> 1]
    /\ fetches[2].pc = "wait"
    /\ fetches[2].lastError = [kind |-> "timeout", attempt |-> 4]
    /\ fetches[1].waitMs = fetches[2].waitMs

---------------------------------------------------------------------------
(* Termination of fetchProductsWithRetry *)

\* The loop never reads the error it caught (see C13), so for termination one kind
\* of failure stands for all: the request that runs into its 25 s timeout.
TimeoutOnly == {"timeout"}

\* the GET of call i settles: axios resolves it or rejects it, at the timeout at the latest
GetSettles(i) ==
    /\ i \in Pending("get")
    /\ \/ \E data \in Responses(fetches[i].type) : GetSucceeds(i, data)
       \/ \E kind \in TimeoutOnly : GetFails(i, kind)

NextFair ==
    \/ MountEffect
    \/ \E type \in FilterChoices : SelectFilter(type)
    \/ \E i \in Pending("get") : \E data \in Responses(fetches[i].type) : GetSucceeds(i, data)
    \/ \E i \in Pending("get") : \E kind \in TimeoutOnly : GetFails(i, kind)
    \/ \E i \in Pending("wait") : WaitElapsed(i)

\* every GET settles and every timer fires
Fairness ==
    \A i \in 1..MaxFetches :
        /\ WF_vars(GetSettles(i))
        /\ WF_vars(i \in Pending("wait") /\ WaitElapsed(i))

FairSpec == Init /\ [][NextFair]_vars /\ Fairness

Settled(i) == i \in DOMAIN fetches /\ fetches[i].pc \in {"returned", "thrown"}

\* C14: with every GET settling and every wait elapsing, each call that was started
\* completes; it makes at most RETRIES attempts and at most RETRIES - 1 waits, none
\* after the last failed attempt, and the step that completes it sets loading to FALSE.
\* (A started call stays started and a settled call stays settled, so "infinitely
\* often not started or settled" says that every started call settles.)
C14_FetchTerminates ==
    /\ \A i \in 1..MaxFetches : []<>(i \in DOMAIN fetches => Settled(i))
    /\ [](\A i \in DOMAIN fetches :
            /\ fetches[i].calls <= RETRIES
            /\ fetches[i].attempt <= RETRIES + 1
            /\ fetches[i].waits <= RETRIES - 1
            /\ fetches[i].waited <= fetches[i].waits
            /\ (fetches[i].pc = "thrown" => fetches[i].waits = RETRIES - 1
                                            /\ fetches[i].waited = RETRIES - 1
                                            /\ fetches[i].calls = RETRIES))
    /\ [][\A i \in DOMAIN fetches : Completes(i) => ~loading']_vars

C14_Witness ==
    /\ Len(fetches) = 2
    /\ \A i \in 1..2 : /\ fetches[i].pc = "thrown"
                       /\ fetches[i].calls = RETRIES
                       /\ fetches[i].waits = RETRIES - 1
    /\ ~loading

---------------------------------------------------------------------------
(* Overlapping requests *)

\* C15: while a call for the selected filter is in flight, loading is TRUE, also after
\* calls started by earlier selections have completed.
C15_LoadingWhileCurrentInFlight ==
    (\E i \in DOMAIN fetches :
        /\ fetches[i].type = selectedType
        /\ fetches[i].pc \in {"get", "wait"}) => loading

\* C16: a review held in aiReviewData is the one returned for the request made for
\* aiReviewProduct, whatever the order of closes, clicks and late responses.
C16_ReviewMatchesProduct ==
    aiReviewData /= Null =>
        /\ aiReviewProduct /= Null
        /\ aiReviewData.productId = aiReviewProduct.id
        /\ aiReviewData.productType = aiReviewProduct.type

---------------------------------------------------------------------------
(* The error flag and the number of calls *)

\* C17: the step in which a call runs out of retries changes hasError (to TRUE) and
\* loading (to FALSE) only: products, selectedType and what is rendered from products
\* keep their values.
C17_FailureKeepsProducts ==
    [][\A i \in DOMAIN fetches :
          (Completes(i) /\ fetches'[i].pc = "thrown") =>
              /\ products' = products
              /\ selectedType' = selectedType
              /\ hasError'
              /\ ~loading'
              /\ UNCHANGED <<viewVars, aiVars, urlVars>>
              /\ Len(fetches') = Len(fetches)
              /\ \A j \in DOMAIN fetches : j /= i => fetches'[j] = fetches[j]]_vars

C17_Witness ==
    /\ Len(fetches) = 2
    /\ fetches[1].pc = "returned"
    /\ fetches[2].pc = "thrown"
    /\ hasError
    /\ ~loading
    /\ Len(products) = 3
    /\ products = fetches[1].result
    /\ selectedType = fetches[2].type

\* C18: hasError is TRUE exactly when some call has completed and the one that
\* completed last failed. Stated step by step: before the first completion hasError
\* is FALSE, a step in which a call completes sets hasError to "that call threw", and
\* every other step, the start of a call on mount or on a filter change included,
\* leaves hasError as it is.
C18_ErrorIsLastOutcome ==
    /\ []((\A i \in DOMAIN fetches : ~Settled(i)) => ~hasError)
    /\ [][\A i \in DOMAIN fetches :
             Completes(i) => (hasError' <=> fetches'[i].pc = "thrown")]_vars
    /\ [][(\A i \in DOMAIN fetches : ~Completes(i)) => hasError' = hasError]_vars
    /\ [][Len(fetches') > Len(fetches) =>
             /\ hasError' = hasError
             /\ fetches'[Len(fetches')].pc = "get"]_vars

C18_Witness ==
    /\ Len(fetches) = 2
    /\ fetches[1].pc = "thrown"
    /\ fetches[2].pc = "get"
    /\ fetches[2].calls = 1
    /\ hasError
    /\ loading

\* C19: the effect starts one call on mount, for VIOLAO, and one call in each step
\* that changes selectedType, for the new value, and no call in any other step; a click
\* on the filter that is selected is possible and changes nothing.
C19_OneFetchPerChange ==
    /\ [](Len(fetches) > 0 =>
             /\ fetches[1].type = "VIOLAO"
             /\ fetches[Len(fetches)].type = selectedType
             /\ \A i \in 2..Len(fetches) : fetches[i].type /= fetches[i - 1].type
             /\ ~ENABLED MountEffect
             /\ ENABLED SelectFilter(selectedType)
             /\ ~ENABLED (SelectFilter(selectedType) /\ vars' /= vars))
    /\ [][/\ Len(fetches') \in {Len(fetches), Len(fetches) + 1}
          /\ Len(fetches') = Len(fetches) + 1 <=>
                 (Len(fetches) = 0 \/ selectedType' /= selectedType)
          /\ Len(fetches') = Len(fetches) + 1 =>
                 /\ fetches'[Len(fetches')] = NewFetch(selectedType')
                 /\ \A i \in DOMAIN fetches : fetches'[i] = fetches[i]]_vars

C19_Witness ==
    /\ Len(fetches) = 2
    /\ fetches[1].type = "VIOLAO"
    /\ fetches[2].type = "GUITARRA"
    /\ selectedType = "GUITARRA"
    /\ fetches[1].pc = "get"
    /\ fetches[2].pc = "get"

===========================================================================
